---- MODULE Spec2Model ----
(***************************************************************************)
(* Model of llama-term.py: the interactive loop of main() that turns an    *)
(* instruction into one shell command through a clarification loop with    *)
(* an LLM, and then executes it with two remediation paths.                *)
(*                                                                         *)
(* Python strings are TLA+ strings, handled character by character with    *)
(* Len, SubSeq and \o.  The grave accent (U+0060) cannot be written inside *)
(* a TLA+ string literal, so the model's alphabet writes it as "#"; no     *)
(* text of the model uses "#" for anything else.                           *)
(*                                                                         *)
(* A Python local that holds None or that is not bound yet is the empty    *)
(* tuple; a bound value v is the one-element tuple <<v>>.                  *)
(*                                                                         *)
(* Two specifications: Spec is the session of main(); FunctionsSpec calls  *)
(* is_command_for_distro, is_valid_command and query_ollama on their own,  *)
(* on arguments built from a few words or lines.                           *)
(***************************************************************************)
EXTENDS Integers, Sequences, FiniteSets, TLC

None == <<>>
Some(v) == <<v>>
Val(o) == o[1]

Backtick == "#"

(***************************************************************************)
(* Bounds of the model (not program constants).                            *)
(***************************************************************************)
\* Empty clarifications the user enters within one request; the program
\* itself sets no limit on them.
MaxEmptyClarifications == 1

\* Words of a command text, and lines of a response stream, given to a
\* function that is called on its own.
MaxParts == 3

(***************************************************************************)
(* String primitives of Python used by the program.                        *)
(***************************************************************************)
Whitespace == {" ", "\t", "\n", "\r"}

UpperChars == "ABCDEFGHIJKLMNOPQRSTUVWXYZ"
LowerChars == "abcdefghijklmnopqrstuvwxyz"

CharAt(s, i) == SubSeq(s, i, i)

SetMin(S) == CHOOSE m \in S : \A n \in S : m <= n
SetMax(S) == CHOOSE m \in S : \A n \in S : m >= n

\* str.strip()
strip(s) ==
    LET keep == {i \in 1..Len(s) : CharAt(s, i) \notin Whitespace}
    IN  IF keep = {} THEN "" ELSE SubSeq(s, SetMin(keep), SetMax(keep))

UpperSet == {CharAt(UpperChars, i) : i \in 1..Len(UpperChars)}

ToLower ==
    [c \in UpperSet |->
        CharAt(LowerChars, CHOOSE i \in 1..Len(UpperChars) : CharAt(UpperChars, i) = c)]

LowerChar(c) == IF c \in UpperSet THEN ToLower[c] ELSE c

\* str.lower()
RECURSIVE lower(_)
lower(s) == IF s = "" THEN "" ELSE LowerChar(Head(s)) \o lower(Tail(s))

\* sub in s
contains(s, sub) ==
    \E i \in 1..(Len(s) - Len(sub) + 1) : SubSeq(s, i, i + Len(sub) - 1) = sub

\* s.startswith(prefix)
startswith(s, prefix) ==
    Len(prefix) <= Len(s) /\ SubSeq(s, 1, Len(prefix)) = prefix

\* s.endswith(suffix)
endswith(s, suffix) ==
    Len(suffix) <= Len(s) /\ SubSeq(s, Len(s) - Len(suffix) + 1, Len(s)) = suffix

(***************************************************************************)
(* get_distro_and_family: the family of a distro id.                       *)
(***************************************************************************)
get_distro_and_family(id) ==
    IF id \in {"ubuntu", "debian", "mint", "elementary", "pop"} THEN "Ubuntu/Debian-based"
    ELSE IF id \in {"endeavouros", "arch", "manjaro"} THEN "Arch-based"
    ELSE IF id \in {"fedora", "centos", "rhel"} THEN "Fedora/RHEL-based"
    ELSE id

(***************************************************************************)
(* is_command_for_distro                                                   *)
(***************************************************************************)
pm_keywords == {"apt", "apt-get", "dpkg", "pacman", "dnf", "yum"}

RecognizedFamilies == {"Ubuntu/Debian-based", "Arch-based", "Fedora/RHEL-based"}

\* expected_pm with every keyword expected in every family
expected_pm_lenient(fam) == pm_keywords

expected_pm(fam) ==
    CASE fam = "Ubuntu/Debian-based" -> {"apt", "apt-get", "dpkg"}
      [] fam = "Arch-based"          -> {"pacman"}
      [] fam = "Fedora/RHEL-based"   -> {"dnf", "yum"}

is_command_for_distro(cmd, fam) ==
    LET cmd_lower == lower(cmd)
    IN  IF \E keyword \in pm_keywords : contains(cmd_lower, keyword)
        THEN IF fam \in RecognizedFamilies
             THEN \E keyword \in expected_pm(fam) : contains(cmd_lower, keyword)
             ELSE TRUE
        ELSE TRUE

(***************************************************************************)
(* extract_command: re.search(r'`([^`]+)`') and then                       *)
(* re.search(r'```([\s\S]+?)```'), the group stripped.                     *)
(***************************************************************************)
\* (i, j): a backtick at i, the next backtick at j, and at least one
\* character between them.
SingleSpans(text) ==
    LET ticks == {i \in 1..Len(text) : CharAt(text, i) = Backtick}
    IN  {p \in ticks \X ticks :
            /\ p[1] + 1 < p[2]
            /\ \A k \in ticks : ~(p[1] < k /\ k < p[2])}

Fence == Backtick \o Backtick \o Backtick

\* (i, j): a fence starting at i, a fence starting at j, and at least one
\* character between the two fences.
TripleSpans(text) ==
    LET fences == {i \in 1..(Len(text) - 2) : SubSeq(text, i, i + 2) = Fence}
    IN  {p \in fences \X fences : p[1] + 4 <= p[2]}

\* the leftmost match; among the matches starting there, the shortest
\* (the single-backtick pattern has only one match per start)
FirstSpan(spans) ==
    LET i == SetMin({p[1] : p \in spans})
        j == SetMin({p[2] : p \in {q \in spans : q[1] = i}})
    IN  <<i, j>>

extract_command(response_text) ==
    LET single == SingleSpans(response_text)
        triple == TripleSpans(response_text)
    IN  IF single # {}
        THEN LET m == FirstSpan(single)
             IN  strip(SubSeq(response_text, m[1] + 1, m[2] - 1))
        ELSE IF triple # {}
        THEN LET m == FirstSpan(triple)
             IN  strip(SubSeq(response_text, m[1] + 3, m[2] - 1))
        ELSE ""

(***************************************************************************)
(* is_valid_command                                                        *)
(***************************************************************************)
conversation_starters == {"it ", "i'm", "hello", "hi", "sure", "ok", "yes"}

\* is_valid_command without the test of lines 140-141
is_valid_command_any_lines(c) ==
    LET cmd == strip(c)
        low == lower(cmd)
    IN  IF cmd = "" THEN FALSE
        ELSE IF \E starter \in conversation_starters : startswith(low, starter) THEN FALSE
        ELSE IF contains(low, "command:") \/ contains(low, "output:") THEN FALSE
        ELSE TRUE

is_valid_command(c) ==
    LET cmd == strip(c)
        low == lower(cmd)
    IN  IF cmd = "" THEN FALSE
        ELSE IF contains(cmd, "\n") THEN FALSE
        ELSE IF \E starter \in conversation_starters : startswith(low, starter) THEN FALSE
        ELSE IF contains(low, "command:") \/ contains(low, "output:") THEN FALSE
        ELSE TRUE

(***************************************************************************)
(* query_ollama: the lines of the streamed HTTP response are folded into   *)
(* one text.  A line is empty, or fails json.loads (malformed), or is a    *)
(* JSON object with a "response" text and a "done" flag, or is JSON that   *)
(* is not an object (a list, a number, null): json.loads accepts it and    *)
(* data.get raises AttributeError.  A stream with failed = TRUE stands for *)
(* a request that raised (connection, timeout, non-2xx status).            *)
(***************************************************************************)
Obj(text, done) == [kind |-> "object", response |-> text, done |-> done]
Malformed == [kind |-> "malformed", response |-> "", done |-> FALSE]
EmptyLine == [kind |-> "empty", response |-> "", done |-> FALSE]
NonObject == [kind |-> "nonobject", response |-> "", done |-> FALSE]

\* an exception other than JSONDecodeError is raised inside the loop of
\* lines 103-113: a line that is not a JSON object is read before the break
RECURSIVE raises(_)
raises(lines) ==
    IF lines = <<>> THEN FALSE
    ELSE LET line == Head(lines)
         IN  IF line.kind = "nonobject" THEN TRUE
             ELSE IF line.kind = "object" /\ line.done THEN FALSE
             ELSE raises(Tail(lines))

RECURSIVE output_parts(_)
output_parts(lines) ==
    IF lines = <<>> THEN ""
    ELSE LET line == Head(lines)
         IN  IF line.kind = "empty" THEN output_parts(Tail(lines))
             ELSE IF line.kind = "malformed" THEN output_parts(Tail(lines))
             ELSE IF line.done THEN line.response
             ELSE line.response \o output_parts(Tail(lines))

\* lines 114-116: any exception makes the call return None
query_ollama(stream) ==
    IF stream.failed \/ raises(stream.lines) THEN None
    ELSE Some(strip(output_parts(stream.lines)))

(***************************************************************************)
(* The environment: what /etc/os-release, the LLM, the user and the        *)
(* executed processes can answer.                                          *)
(***************************************************************************)
Distros == {"ubuntu", "arch", "unknown"}

Text(t) == [failed |-> FALSE, lines |-> <<Obj(t, TRUE)>>]

Streams ==
    { Text("#sudo apt install htop#"),
      [failed |-> FALSE,
       lines  |-> <<Obj("#sudo pacman ", FALSE), Malformed, EmptyLine,
                    Obj("-S htop# ?\n", TRUE), Obj("ignored", FALSE)>>],
      Text("Which package do you want?"),
      Text("I am not able to help with that."),
      Text("Try #ls /tmp#?"),
      Text("#sudoreplay -l#"),
      Text("#Sure thing#?"),
      Text("#sudo usermod -aG Docker bob#"),
      Text(" \n"),
      [failed |-> TRUE, lines |-> <<>>] }

Instructions == {"install htop", " EXIT", "quit"}

Clarifications == {"for this distro please ", " ", "Cancel", "break", " EXIT", "quit"}

ConfirmAnswers == {"Y", "", "yes please"}

RemediationAnswers == {" Yes", "", "no"}

ReturnCodes == {0, 1}

(***************************************************************************)
(* State: the locals of main(), the position of main() at its blocking     *)
(* calls (pc), and a record of what the request did to the outside         *)
(* (queries, executed, outcome).                                           *)
(***************************************************************************)
VARIABLES
    pc,                    \* the blocking call main() is waiting in
    distro, family,        \* line 169
    user_instruction,      \* line 174
    conversation_history,  \* line 179
    final_command,         \* line 181
    iteration,             \* line 182
    llm_response,          \* line 188
    candidate,             \* line 193
    clarification,         \* lines 202, 221
    confirm,               \* line 246
    retcode,               \* lines 251, 259, 274
    retcode2,              \* line 256
    create_group,          \* line 254
    sudo_confirm,          \* line 270
    queries,               \* calls of query_ollama in this request
    executed,              \* commands given to execute_command in this request
    outcome,               \* the way the last request ended
    call, result           \* a function called on its own, and what it returned

vars == <<pc, distro, family, user_instruction, conversation_history,
          final_command, iteration, llm_response, candidate, clarification,
          confirm, retcode, retcode2, create_group, sudo_confirm,
          queries, executed, outcome, call, result>>

max_iterations == 5

cancel_words == {"cancel", "break", "exit", "quit"}

affirmative == {"y", "yes", ""}

\* Python truthiness of an optional string: None and "" are false
truthy(o) == o # None /\ Val(o) # ""

Init ==
    /\ pc = "instruction"
    /\ distro \in Distros
    /\ family = get_distro_and_family(distro)
    /\ user_instruction = None
    /\ conversation_history = <<>>
    /\ final_command = None
    /\ iteration = 0
    /\ llm_response = None
    /\ candidate = None
    /\ clarification = None
    /\ confirm = None
    /\ retcode = None
    /\ retcode2 = None
    /\ create_group = None
    /\ sudo_confirm = None
    /\ queries = 0
    /\ executed = <<>>
    /\ outcome = "none"
    /\ call = None
    /\ result = None

(***************************************************************************)
(* Lines 173-188: read an instruction; exit/quit ends the session, any     *)
(* other instruction starts a request and issues its first LLM query.      *)
(* The locals of the previous request that are written before they are     *)
(* read again (llm_response, candidate, clarification, confirm, retcode,   *)
(* retcode2, create_group, sudo_confirm) are dead here and the model       *)
(* unbinds them.  max_iterations is positive, so the loop test of line 185 *)
(* holds on entry and the first query is issued.                           *)
(***************************************************************************)
\* line 175
is_exit(instr) == lower(instr) \in {"exit", "quit"}

\* new_history with the list created once, before the session loop
new_history_kept(history, instr) == Append(history, "User: " \o instr)

\* lines 179-180: a new list with one entry
new_history(history, instr) == <<"User: " \o instr>>

ReadInstruction ==
    /\ pc = "instruction"
    /\ \E raw \in Instructions :
        LET instr == strip(raw)
        IN  /\ user_instruction' = Some(instr)
            /\ IF is_exit(instr)
               THEN /\ pc' = "exited"
                    /\ outcome' = "exit"
                    /\ UNCHANGED <<conversation_history, final_command, iteration,
                                   llm_response, candidate, clarification, confirm,
                                   retcode, retcode2, create_group, sudo_confirm,
                                   queries, executed>>
               ELSE /\ conversation_history' = new_history(conversation_history, instr)
                    /\ final_command' = None
                    /\ iteration' = 0
                    /\ llm_response' = None
                    /\ candidate' = None
                    /\ clarification' = None
                    /\ confirm' = None
                    /\ retcode' = None
                    /\ retcode2' = None
                    /\ create_group' = None
                    /\ sudo_confirm' = None
                    /\ executed' = <<>>
                    /\ outcome' = "running"
                    /\ pc' = "query"
                    /\ queries' = 1
    /\ UNCHANGED <<call, result, distro, family>>

(***************************************************************************)
(* Lines 189-236: the branch main() takes on a response.                   *)
(***************************************************************************)
\* classify without the distro filter
classify_unfiltered(resp, fam) ==
    IF ~truthy(resp) THEN "no_response"
    ELSE LET cand == extract_command(Val(resp))
         IN  IF cand # "" /\ is_valid_command(cand) THEN "accepted"
             ELSE IF endswith(strip(Val(resp)), "?") THEN "question" ELSE "unusable"

\* classify with the question test made before the command test
classify_question_first(resp, fam) ==
    IF ~truthy(resp) THEN "no_response"
    ELSE LET cand == extract_command(Val(resp))
         IN  IF endswith(strip(Val(resp)), "?") THEN "question"
             ELSE IF cand # "" /\ is_valid_command(cand)
             THEN IF ~is_command_for_distro(cand, fam) THEN "mismatch" ELSE "accepted"
             ELSE "unusable"

classify(resp, fam) ==
    IF ~truthy(resp) THEN "no_response"
    ELSE LET cand == extract_command(Val(resp))
         IN  IF cand # "" /\ is_valid_command(cand)
             THEN IF ~is_command_for_distro(cand, fam) THEN "mismatch" ELSE "accepted"
             ELSE IF endswith(strip(Val(resp)), "?") THEN "question" ELSE "unusable"

\* accept_turn recording the candidate instead of the raw response
accept_turn_candidate(history, resp, cand) == Append(history, "Assistant: " \o cand)

\* line 216
accept_turn(history, resp, cand) == Append(history, "Assistant: " \o resp)

\* request_end as a `break` out of the session loop
request_end_break == "exited"

\* where main() goes when a request is over: the `continue` of lines 240
\* and 249 and the end of the loop body lead back to line 174
request_end == "instruction"

(***************************************************************************)
(* Lines 188-246: query_ollama returns.                                    *)
(***************************************************************************)
LLMResponse ==
    /\ pc = "query"
    /\ \E stream \in Streams :
        LET resp == query_ollama(stream)
            kind == classify(resp, family)
        IN  /\ llm_response' = resp
            /\ candidate' = IF kind = "no_response" THEN candidate
                            ELSE Some(extract_command(Val(resp)))
            /\ CASE kind = "no_response" ->    \* lines 189-191, 238-240
                      /\ pc' = request_end
                      /\ outcome' = "no_response"
                      /\ UNCHANGED <<final_command, conversation_history>>
                 [] kind = "mismatch" ->       \* lines 196-202
                      /\ pc' = "clarify_mismatch"
                      /\ UNCHANGED <<outcome, final_command, conversation_history>>
                 [] kind = "accepted" ->       \* lines 215-217, 238-246; the
                                               \* candidate is not empty, so the
                                               \* test of line 238 fails
                      /\ final_command' = Some(extract_command(Val(resp)))
                      /\ conversation_history' =
                             accept_turn(conversation_history, Val(resp),
                                         extract_command(Val(resp)))
                      /\ pc' = "confirm"
                      /\ outcome' = "accepted"
                 [] kind = "question" ->       \* lines 220-221
                      /\ pc' = "clarify_question"
                      /\ UNCHANGED <<outcome, final_command, conversation_history>>
                 [] kind = "unusable" ->       \* lines 234-240
                      /\ pc' = request_end
                      /\ outcome' = "unusable"
                      /\ final_command' = None
                      /\ UNCHANGED conversation_history
    /\ UNCHANGED <<call, result, distro, family, user_instruction, iteration, clarification,
                   confirm, retcode, retcode2, create_group, sudo_confirm,
                   queries, executed>>

(***************************************************************************)
(* Lines 202-213 and 221-232: the user answers a clarification prompt.     *)
(* Both `continue` statements go back to the loop test of line 185 and,    *)
(* when it holds, to the next call of query_ollama at line 188.            *)
(***************************************************************************)
mismatch_label == "Assistant (mismatch): "
question_label == "Assistant: "

\* Continue with an off-by-one loop test
Continue_inclusive(it) ==
    IF it <= max_iterations
    THEN pc' = "query" /\ queries' = queries + 1 /\ outcome' = outcome
    ELSE pc' = request_end /\ queries' = queries /\ outcome' = "exhausted"

\* `continue`: the loop test of line 185 with the iteration count it; when
\* it fails the loop ends with final_command None (lines 238-240)
Continue(it) ==
    IF it < max_iterations
    THEN pc' = "query" /\ queries' = queries + 1 /\ outcome' = outcome
    ELSE pc' = request_end /\ queries' = queries /\ outcome' = "exhausted"

\* is_cancel without the lower-casing
is_cancel_case_sensitive(clar) == clar \in cancel_words

\* lines 203, 222
is_cancel(clar) == lower(clar) \in cancel_words

\* clarify_turns with the two entries in the other order
clarify_turns_swapped(history, label, resp, clar) ==
    history \o <<"User: " \o clar, label \o resp>>

\* clarify_turns without the entry of the response
clarify_turns_user_only(history, label, resp, clar) ==
    Append(history, "User: " \o clar)

\* lines 210-211, 229-230
clarify_turns(history, label, resp, clar) ==
    history \o <<label \o resp, "User: " \o clar>>

\* no_clarification taking every answer for a clarification
no_clarification_never(clar) == FALSE

\* lines 207, 226: `if not clarification`
no_clarification(clar) == clar = ""

ClarifyStep(at, label) ==
    /\ pc = at
    /\ \E raw \in Clarifications :
        LET clar == strip(raw)
        IN  /\ clarification' = Some(clar)
            /\ IF is_cancel(clar)
               THEN \* lines 203-206 / 222-225, then 238-240
                    /\ final_command' = None
                    /\ pc' = request_end
                    /\ outcome' = "aborted"
                    /\ UNCHANGED <<conversation_history, iteration, queries>>
               ELSE IF no_clarification(clar)
               THEN \* lines 207-209 / 226-228: continue
                    /\ queries - iteration - 1 < MaxEmptyClarifications
                    /\ Continue(iteration)
                    /\ UNCHANGED <<conversation_history, iteration, final_command>>
               ELSE \* lines 210-213 / 229-232: continue
                    /\ conversation_history' =
                           clarify_turns(conversation_history, label,
                                         Val(llm_response), clar)
                    /\ iteration' = iteration + 1
                    /\ Continue(iteration + 1)
                    /\ UNCHANGED final_command
    /\ UNCHANGED <<call, result, distro, family, user_instruction, llm_response, candidate,
                   confirm, retcode, retcode2, create_group, sudo_confirm, executed>>

ClarifyMismatch == ClarifyStep("clarify_mismatch", mismatch_label)

ClarifyQuestion == ClarifyStep("clarify_question", question_label)

(***************************************************************************)
(* Lines 246-251: the confirmation prompt; an affirmative answer starts    *)
(* the first execution of final_command.                                   *)
(***************************************************************************)
\* is_affirmative accepting every answer that begins with y
is_affirmative_prefix(answer) == answer = "" \/ startswith(answer, "y")

\* lines 247, 255, 271
is_affirmative(answer) == answer \in affirmative

ConfirmStep ==
    /\ pc = "confirm"
    /\ \E raw \in ConfirmAnswers :
        LET answer == lower(strip(raw))
        IN  /\ confirm' = Some(answer)
            /\ IF ~is_affirmative(answer)
               THEN /\ pc' = request_end
                    /\ outcome' = "skipped"
                    /\ UNCHANGED executed
               ELSE /\ pc' = "execute"
                    /\ executed' = Append(executed, Val(final_command))
                    /\ UNCHANGED outcome
    /\ UNCHANGED <<call, result, distro, family, user_instruction, conversation_history,
                   final_command, iteration, llm_response, candidate, clarification,
                   retcode, retcode2, create_group, sudo_confirm, queries>>

\* line 253: the signature of the missing docker group
docker_signature(cmd) ==
    contains(lower(cmd), "usermod") /\ contains(lower(cmd), "docker")

(***************************************************************************)
(* Lines 251-254, 268-270, 281-282: the first execution returns.           *)
(***************************************************************************)
ExecuteReturn ==
    /\ pc = "execute"
    /\ \E rc \in ReturnCodes :
        /\ retcode' = Some(rc)
        /\ IF rc # 0 /\ docker_signature(Val(final_command))
           THEN pc' = "create_group" /\ UNCHANGED outcome
           ELSE IF rc # 0
           THEN pc' = "sudo_confirm" /\ UNCHANGED outcome
           ELSE pc' = request_end /\ outcome' = "success"
    /\ UNCHANGED <<call, result, distro, family, user_instruction, conversation_history,
                   final_command, iteration, llm_response, candidate, clarification,
                   confirm, retcode2, create_group, sudo_confirm, queries, executed>>

(***************************************************************************)
(* Lines 254-256, 266-267: the docker group prompt.                        *)
(***************************************************************************)
CreateGroupStep ==
    /\ pc = "create_group"
    /\ \E raw \in RemediationAnswers :
        LET answer == lower(strip(raw))
        IN  /\ create_group' = Some(answer)
            /\ IF is_affirmative(answer)
               THEN /\ pc' = "groupadd"
                    /\ executed' = Append(executed, "sudo groupadd docker")
                    /\ UNCHANGED outcome
               ELSE /\ pc' = request_end
                    /\ outcome' = "group_declined"
                    /\ UNCHANGED executed
    /\ UNCHANGED <<call, result, distro, family, user_instruction, conversation_history,
                   final_command, iteration, llm_response, candidate, clarification,
                   confirm, retcode, retcode2, sudo_confirm, queries>>

(***************************************************************************)
(* Lines 256-259, 264-265: `sudo groupadd docker` returns.                 *)
(***************************************************************************)
\* groupadd_succeeded ignoring the return code
groupadd_succeeded_always(rc) == TRUE

\* line 257
groupadd_succeeded(rc) == rc = 0

GroupaddReturn ==
    /\ pc = "groupadd"
    /\ \E rc \in ReturnCodes :
        /\ retcode2' = Some(rc)
        /\ IF groupadd_succeeded(rc)
           THEN /\ pc' = "rerun"
                /\ executed' = Append(executed, Val(final_command))
                /\ UNCHANGED outcome
           ELSE /\ pc' = request_end
                /\ outcome' = "group_failed"
                /\ UNCHANGED executed
    /\ UNCHANGED <<call, result, distro, family, user_instruction, conversation_history,
                   final_command, iteration, llm_response, candidate, clarification,
                   confirm, retcode, create_group, sudo_confirm, queries>>

(***************************************************************************)
(* Lines 259-263: the re-run after the group was created returns.          *)
(***************************************************************************)
\* after_rerun with the test of line 268 written `if` instead of `elif`
after_rerun_if(rc) == IF rc # 0 THEN "sudo_confirm" ELSE request_end

\* lines 259-268: the re-run is inside the branch of line 253, so the `elif`
\* of line 268 is not evaluated, whatever the re-run returned
after_rerun(rc) == request_end

RerunReturn ==
    /\ pc = "rerun"
    /\ \E rc \in ReturnCodes :
        /\ retcode' = Some(rc)
        /\ outcome' = IF rc # 0 THEN "rerun_failed" ELSE "rerun_success"
        /\ pc' = after_rerun(rc)
    /\ UNCHANGED <<call, result, distro, family, user_instruction, conversation_history,
                   final_command, iteration, llm_response, candidate, clarification,
                   confirm, retcode2, create_group, sudo_confirm, queries, executed>>

(***************************************************************************)
(* Lines 270-274, 279-280: the sudo prompt.                                *)
(***************************************************************************)
\* lines 272-273
with_sudo(cmd) ==
    IF ~startswith(strip(cmd), "sudo") THEN "sudo " \o cmd ELSE cmd

SudoConfirmStep ==
    /\ pc = "sudo_confirm"
    /\ \E raw \in RemediationAnswers :
        LET answer == lower(strip(raw))
            cmd == with_sudo(Val(final_command))
        IN  /\ sudo_confirm' = Some(answer)
            /\ IF is_affirmative(answer)
               THEN /\ final_command' = Some(cmd)
                    /\ pc' = "sudo_run"
                    /\ executed' = Append(executed, cmd)
                    /\ UNCHANGED outcome
               ELSE /\ pc' = request_end
                    /\ outcome' = "sudo_declined"
                    /\ UNCHANGED <<final_command, executed>>
    /\ UNCHANGED <<call, result, distro, family, user_instruction, conversation_history,
                   iteration, llm_response, candidate, clarification,
                   confirm, retcode, retcode2, create_group, queries>>

(***************************************************************************)
(* Lines 274-278: the sudo run returns.                                    *)
(***************************************************************************)
SudoReturn ==
    /\ pc = "sudo_run"
    /\ \E rc \in ReturnCodes :
        /\ retcode' = Some(rc)
        /\ outcome' = IF rc # 0 THEN "sudo_failed" ELSE "sudo_success"
    /\ pc' = request_end
    /\ UNCHANGED <<call, result, distro, family, user_instruction, conversation_history,
                   final_command, iteration, llm_response, candidate, clarification,
                   confirm, retcode2, create_group, sudo_confirm, queries, executed>>

Next ==
    \/ ReadInstruction
    \/ LLMResponse
    \/ ClarifyMismatch
    \/ ClarifyQuestion
    \/ ConfirmStep
    \/ ExecuteReturn
    \/ CreateGroupStep
    \/ GroupaddReturn
    \/ RerunReturn
    \/ SudoConfirmStep
    \/ SudoReturn

Spec == Init /\ [][Next]_vars

(***************************************************************************)
(* The functions of the program called on their own, on arguments that     *)
(* main() may or may not be able to produce: a call is recorded with its   *)
(* arguments in `call` and the value it returned in `result`, one call at  *)
(* a time.                                                                 *)
(***************************************************************************)
RECURSIVE Concat(_)
Concat(words) == IF words = <<>> THEN "" ELSE Head(words) \o Concat(Tail(words))

\* the sequences of at most n elements of S
SeqUpTo(S, n) == UNION {[1..k -> S] : k \in 0..n}

\* texts made of package manager keywords (apt-get is apt and -get)
FilterWords == {"apt", "-get", "dpkg", "pacman", "dnf", "yum", " ", "ls"}

FilterCandidates == {Concat(w) : w \in SeqUpTo(FilterWords, MaxParts)}

\* get_distro_and_family returns one of the three family names, or the
\* distro id itself, or "unknown"
Families == RecognizedFamilies \cup {"unknown", "gentoo"}

\* texts with newlines, blanks and words
CommandWords == {"ls", "-l", "Hi", "command:", " ", "\t", "\n"}

CommandCandidates == {Concat(w) : w \in SeqUpTo(CommandWords, MaxParts)}

\* lines of a response
Fragments ==
    {Obj("#ls", FALSE), Obj(" -l# ", TRUE), Obj("\n", FALSE),
     Malformed, EmptyLine, NonObject}

\* failed = TRUE: requests raised before the loop of line 103 was over
FragmentStreams ==
    {[failed |-> f, lines |-> l] : f \in BOOLEAN, l \in SeqUpTo(Fragments, MaxParts)}

main_vars == <<pc, distro, family, user_instruction, conversation_history,
               final_command, iteration, llm_response, candidate, clarification,
               confirm, retcode, retcode2, create_group, sudo_confirm,
               queries, executed, outcome>>

FunctionsInit == Init /\ distro = "unknown"

CallIsCommandForDistro ==
    /\ call = None
    /\ \E cmd \in FilterCandidates, fam \in Families :
        /\ call' = Some([fn |-> "is_command_for_distro", args |-> <<cmd, fam>>])
        /\ result' = Some(is_command_for_distro(cmd, fam))
    /\ UNCHANGED main_vars

CallIsValidCommand ==
    /\ call = None
    /\ \E cmd \in CommandCandidates :
        /\ call' = Some([fn |-> "is_valid_command", args |-> <<cmd>>])
        /\ result' = Some(is_valid_command(cmd))
    /\ UNCHANGED main_vars

CallQueryOllama ==
    /\ call = None
    /\ \E stream \in FragmentStreams :
        /\ call' = Some([fn |-> "query_ollama", args |-> <<stream>>])
        /\ result' = Some(query_ollama(stream))
    /\ UNCHANGED main_vars

\* the caller is done with the value and may call again
DropResult ==
    /\ call # None
    /\ call' = None
    /\ result' = None
    /\ UNCHANGED main_vars

FunctionsNext ==
    \/ CallIsCommandForDistro
    \/ CallIsValidCommand
    \/ CallQueryOllama
    \/ DropResult

FunctionsSpec == FunctionsInit /\ [][FunctionsNext]_vars

\* the function fn has been called and has returned
Called(fn) == call # None /\ Val(call).fn = fn

(***************************************************************************)
(* Properties.                                                             *)
(***************************************************************************)
ConversationStages == {"query", "clarify_mismatch", "clarify_question"}

ClarifyStages == {"clarify_mismatch", "clarify_question"}

ExecutionStages == {"confirm", "execute", "create_group", "groupadd", "rerun",
                    "sudo_confirm", "sudo_run"}

\* cmd is the command extracted from the response resp, and it passes
\* is_valid_command and is_command_for_distro for the family fam
Approved(resp, cmd, fam) ==
    /\ resp # None
    /\ Val(resp) # ""
    /\ cmd # ""
    /\ cmd = extract_command(Val(resp))
    /\ is_valid_command(cmd)
    /\ is_command_for_distro(cmd, fam)

\* C1: a final command is set only when it is the candidate extracted from
\* the most recent LLM response and that candidate passed is_valid_command
\* and is_command_for_distro for the detected family.  No final command is
\* set while the conversation is going on, nor when the request ended by
\* no response, an unusable response, a cancellation or exhaustion; the
\* command shown at the confirmation prompt and the first command executed
\* are that candidate, and the execution stage sees no other response.
C1_FinalCommandValidated ==
    /\ [](pc \in ConversationStages => final_command = None)
    /\ [](outcome \in {"no_response", "unusable", "aborted", "exhausted"}
            => (final_command = None /\ executed = <<>>))
    /\ [][(/\ pc \notin ExecutionStages
           /\ final_command' # final_command
           /\ final_command' # None)
          => (/\ pc = "query"
              /\ pc' = "confirm"
              /\ candidate' # None
              /\ final_command' = candidate'
              /\ Approved(llm_response', Val(candidate'), family'))]_vars
    /\ [][(pc \in ExecutionStages)
          => (candidate' = candidate /\ llm_response' = llm_response)]_vars
    /\ [](pc \in {"confirm", "execute"}
            => (final_command # None /\ final_command = candidate))
    /\ [](executed # <<>> => (candidate # None /\ executed[1] = Val(candidate)))

\* C1 witness: a command accepted after a clarification turn waits at the
\* confirmation prompt
C1_Witness ==
    /\ pc = "confirm"
    /\ iteration > 0
    /\ final_command # None
    /\ family = "Ubuntu/Debian-based"

\* C2: within one request the iteration counter starts at 0, never
\* decreases and never exceeds 5; when it is 5 the request has ended
\* (exhausted) with no final command and no process executed.
C2_IterationBounded ==
    /\ [](iteration \in 0..5)
    /\ [](iteration = 5 =>
            /\ pc \in {"instruction", "exited"}
            /\ outcome \in {"exhausted", "exit"}
            /\ final_command = None
            /\ executed = <<>>)
    /\ [][/\ (pc = "instruction" /\ pc' # "exited") => iteration' = 0
          /\ pc # "instruction" => iteration' >= iteration]_vars

\* C2 witness: a request that ended exhausted
C2_Witness == iteration = 5 /\ outcome = "exhausted" /\ pc = "instruction"

\* C3 (as claimed): one request issues at most 5 LLM queries.
C3_AtMostFiveQueries == queries <= 5

\* C4 (as claimed): an empty clarification leaves the controller in the same
\* clarification state and issues no new LLM query.
C4_EmptyClarificationStays ==
    [][(pc \in ClarifyStages /\ clarification' = Some(""))
          => (pc' = pc /\ queries' = queries)]_vars

\* C5: a clarification that is neither empty nor a cancellation keyword
\* appends exactly two entries to the history, the raw LLM response with
\* the label of its branch and then "User: " and the clarification, keeps
\* the earlier entries, increments iteration by 1, sets no final command and
\* goes back to the loop test, which issues the next LLM query while
\* iteration is below 5 and ends the request exhausted otherwise.
C5_ClarificationTurn ==
    [][(/\ pc \in ClarifyStages
        /\ clarification' # None
        /\ Val(clarification') # ""
        /\ lower(Val(clarification')) \notin {"cancel", "break", "exit", "quit"})
       => /\ llm_response # None
          /\ conversation_history' =
                conversation_history \o
                    <<(IF pc = "clarify_mismatch" THEN "Assistant (mismatch): "
                                                  ELSE "Assistant: ")
                          \o Val(llm_response),
                      "User: " \o Val(clarification')>>
          /\ Len(conversation_history') = Len(conversation_history) + 2
          /\ iteration' = iteration + 1
          /\ final_command' = None
          /\ IF iteration' < 5
             THEN pc' = "query" /\ queries' = queries + 1
             ELSE pc' = "instruction" /\ outcome' = "exhausted"]_vars

\* C5 witness: two clarification turns, one of each branch, are in the
\* history and the next query is out
C5_Witness ==
    /\ pc = "query"
    /\ iteration = 2
    /\ Len(conversation_history) = 5
    /\ \E i, j \in 1..5 :
         /\ startswith(conversation_history[i], "Assistant (mismatch): ")
         /\ startswith(conversation_history[j], "Assistant: ")

\* C6: a response whose extracted candidate is valid and approved by the
\* distro filter is accepted at once: the final command is the candidate,
\* "Assistant: " and the raw response is appended to the history, the
\* confirmation prompt follows, and the request makes no further LLM query
\* and shows no clarification prompt; accepted on the first response, the
\* request has had no clarification turn.
C6_AcceptedAtOnce ==
    /\ [][(/\ pc = "query"
           /\ llm_response' # None
           /\ Val(llm_response') # ""
           /\ extract_command(Val(llm_response')) # ""
           /\ is_valid_command(extract_command(Val(llm_response')))
           /\ is_command_for_distro(extract_command(Val(llm_response')), family))
          => /\ final_command' = Some(extract_command(Val(llm_response')))
             /\ conversation_history' =
                    Append(conversation_history, "Assistant: " \o Val(llm_response'))
             /\ pc' = "confirm"
             /\ iteration' = iteration
             /\ queries' = queries]_vars
    /\ [][(pc \in ExecutionStages)
          => (pc' \notin ConversationStages /\ queries' = queries)]_vars
    /\ []((pc = "confirm" /\ queries = 1)
            => (iteration = 0 /\ clarification = None
                /\ Len(conversation_history) = 2))

\* C6 witness: `sudo apt install htop` accepted on the first response of a
\* request on a Debian-like system
C6_Witness ==
    /\ pc = "confirm"
    /\ queries = 1
    /\ family = "Ubuntu/Debian-based"
    /\ llm_response = Some("#sudo apt install htop#")
    /\ final_command = Some("sudo apt install htop")

\* C7: cancel, break, exit or quit (in any letter case) at a clarification
\* prompt of either branch aborts the request: no final command, no
\* confirmation prompt, no process executed, history and iteration as they
\* were.
C7_CancelAborts ==
    [][(/\ pc \in ClarifyStages
        /\ clarification' # None
        /\ lower(Val(clarification')) \in {"cancel", "break", "exit", "quit"})
       => /\ pc' = "instruction"
          /\ outcome' = "aborted"
          /\ final_command' = None
          /\ confirm' = None
          /\ executed' = <<>>
          /\ conversation_history' = conversation_history
          /\ iteration' = iteration
          /\ queries' = queries]_vars

\* C7 witness: the question of the LLM was answered with EXIT
C7_Witness ==
    /\ pc = "instruction"
    /\ outcome = "aborted"
    /\ clarification = Some("EXIT")
    /\ llm_response = Some("Which package do you want?")

\* the response that is being handled carries a valid command
HasValidCommand(resp) ==
    /\ extract_command(resp) # ""
    /\ is_valid_command(extract_command(resp))

\* C8: a response whose extracted candidate is a valid command goes to the
\* distro filter (accepted or mismatch clarification) and never to the
\* question clarification, whether or not it ends with "?"; the question
\* clarification is entered only when no valid command was extracted and
\* the trimmed response ends with "?".
C8_CommandBeforeQuestion ==
    /\ [][(/\ pc = "query"
           /\ llm_response' # None
           /\ Val(llm_response') # ""
           /\ HasValidCommand(Val(llm_response')))
          => pc' = IF is_command_for_distro(extract_command(Val(llm_response')), family)
                   THEN "confirm" ELSE "clarify_mismatch"]_vars
    /\ [](pc = "clarify_question"
            => /\ llm_response # None
               /\ ~HasValidCommand(Val(llm_response))
               /\ endswith(strip(Val(llm_response)), "?"))

\* C8 witness: a valid command of the wrong package manager in a response
\* that ends with "?" is in the mismatch clarification
C8_Witness ==
    /\ pc = "clarify_mismatch"
    /\ llm_response # None
    /\ endswith(Val(llm_response), "?")
    /\ HasValidCommand(Val(llm_response))

RequestEndings ==
    {"no_response", "unusable", "aborted", "exhausted", "skipped", "success",
     "group_declined", "group_failed", "rerun_failed", "rerun_success",
     "sudo_declined", "sudo_failed", "sudo_success"}

\* C9: every ending of a request (no response, unusable response, aborted
\* clarification, exhaustion, declined confirmation, execution with or
\* without remediation) leaves the program at the instruction prompt; the
\* session ends only at the instruction prompt, on exit or quit; exit or
\* quit at a clarification prompt ends the request only.
C9_SessionOutlivesRequests ==
    /\ [](outcome \in RequestEndings => pc = "instruction")
    /\ [][(pc \in ConversationStages \cup ExecutionStages)
          => (pc' \in ConversationStages \cup ExecutionStages \cup {"instruction"}
              /\ (pc' = "instruction" => outcome' \in RequestEndings))]_vars
    /\ [][pc' = "exited"
          => (/\ pc = "instruction"
              /\ user_instruction' # None
              /\ lower(Val(user_instruction')) \in {"exit", "quit"})]_vars
    /\ [][(/\ pc \in ClarifyStages
           /\ clarification' # None
           /\ lower(Val(clarification')) \in {"exit", "quit"})
          => pc' = "instruction"]_vars

\* C9 witness: quit at a clarification prompt left the session at the
\* instruction prompt
C9_Witness ==
    /\ pc = "instruction"
    /\ outcome = "aborted"
    /\ clarification = Some("quit")

\* the command carries the signature of the docker group remediation
UsermodDocker(cmd) ==
    contains(lower(cmd), "usermod") /\ contains(lower(cmd), "docker")

\* C10: when the first execution of a final command containing usermod and
\* docker (in any letter case) exits nonzero, the docker group prompt
\* follows; on an affirmative answer `sudo groupadd docker` is run; when it
\* exits 0 the unmodified original command is executed exactly once more;
\* when it exits nonzero, or the user declines, the original command is not
\* executed again.
C10_DockerGroupRemediation ==
    /\ [][(/\ pc = "execute"
           /\ retcode' # Some(0)
           /\ UsermodDocker(Val(final_command)))
          => (pc' = "create_group" /\ executed' = executed)]_vars
    /\ [][pc = "create_group"
          => IF Val(create_group') \in {"y", "yes", ""}
             THEN pc' = "groupadd"
                  /\ executed' = Append(executed, "sudo groupadd docker")
             ELSE pc' = "instruction" /\ executed' = executed]_vars
    /\ [][pc = "groupadd"
          => IF retcode2' = Some(0)
             THEN pc' = "rerun" /\ executed' = Append(executed, Val(candidate))
             ELSE pc' = "instruction" /\ executed' = executed]_vars
    /\ [][pc = "rerun" => (pc' = "instruction" /\ executed' = executed)]_vars
    /\ [](pc \in {"create_group", "groupadd", "rerun"}
            => (final_command = candidate /\ UsermodDocker(Val(candidate))))
    /\ [](outcome \in {"rerun_failed", "rerun_success"}
            => executed = <<Val(candidate), "sudo groupadd docker", Val(candidate)>>)
    /\ [](outcome = "group_failed"
            => executed = <<Val(candidate), "sudo groupadd docker">>)
    /\ [](outcome = "group_declined" => executed = <<Val(candidate)>>)

\* C10 witness: the group was created and the original command ran again
C10_Witness ==
    /\ outcome = "rerun_success"
    /\ retcode2 = Some(0)
    /\ executed = <<"sudo usermod -aG Docker bob", "sudo groupadd docker",
                    "sudo usermod -aG Docker bob">>

\* C11 (as claimed): after a first execution that exits nonzero of a command
\* without the usermod+docker signature, an accepted elevated retry executes
\* exactly one more process, whose command is the final command prefixed
\* with "sudo " unless it already starts with that prefix, in which case it
\* is re-run unchanged; a declined retry executes nothing more and leaves
\* the exit code of the first execution as the one reported.
C11_ElevatedRetry ==
    /\ [][pc = "sudo_confirm"
          => IF Val(sudo_confirm') \in {"y", "yes", ""}
             THEN /\ pc' = "sudo_run"
                  /\ executed' =
                        Append(executed,
                               IF startswith(Val(final_command), "sudo ")
                               THEN Val(final_command)
                               ELSE "sudo " \o Val(final_command))
             ELSE /\ pc' = "instruction"
                  /\ executed' = executed
                  /\ retcode' = retcode]_vars
    /\ [][pc = "sudo_run" => (pc' = "instruction" /\ executed' = executed)]_vars

\* C12: one request executes the final command once and then takes at most
\* one remediation path, at most once.  The docker group path and the sudo
\* path exclude each other; the return of a re-run (after groupadd or with
\* sudo) ends the request whatever its exit code, with no further prompt or
\* process; a first execution that exits 0 ends the request with no
\* remediation; at most 3 processes are executed on the docker group path
\* (the command, groupadd, the re-run) and at most 2 on the sudo path.
C12_OneRemediation ==
    /\ [](Len(executed) <= 3)
    /\ [](create_group = None \/ sudo_confirm = None)
    /\ []((pc \in {"sudo_confirm", "sudo_run"} \/ sudo_confirm # None)
            => (create_group = None /\ retcode2 = None /\ Len(executed) <= 2))
    /\ []((pc \in {"create_group", "groupadd", "rerun"} \/ create_group # None)
            => sudo_confirm = None)
    /\ [][(pc' \in {"create_group", "sudo_confirm"} /\ pc' # pc)
          => (pc = "execute" /\ retcode' # Some(0))]_vars
    /\ [][(pc' = "execute" /\ pc' # pc)
          => (pc = "confirm" /\ executed = <<>>)]_vars
    /\ [][(pc \in {"rerun", "sudo_run"})
          => /\ pc' = "instruction"
             /\ executed' = executed
             /\ create_group' = create_group
             /\ sudo_confirm' = sudo_confirm]_vars
    /\ [][(pc = "execute" /\ retcode' = Some(0))
          => /\ pc' = "instruction"
             /\ outcome' = "success"
             /\ Len(executed') = 1
             /\ create_group' = None
             /\ sudo_confirm' = None]_vars

\* C12 witness: the re-run after groupadd failed and the request is over
\* with three processes executed and no sudo prompt
C12_Witness ==
    /\ pc = "instruction"
    /\ outcome = "rerun_failed"
    /\ retcode = Some(1)
    /\ Len(executed) = 3
    /\ sudo_confirm = None

\* the text cmd contains, in any letter case, one of the keywords
HasKeyword(cmd, keywords) == \E k \in keywords : contains(lower(cmd), k)

\* the package manager keywords that are not of the family fam
ForeignKeywords(fam) ==
    IF fam = "Ubuntu/Debian-based" THEN {"pacman", "dnf", "yum"}
    ELSE IF fam = "Arch-based" THEN {"apt", "apt-get", "dpkg", "dnf", "yum"}
    ELSE {"apt", "apt-get", "dpkg", "pacman"}

\* the package manager keywords of the family fam
FamilyKeywords(fam) ==
    {"apt", "apt-get", "dpkg", "pacman", "dnf", "yum"} \ ForeignKeywords(fam)

\* C13 (as claimed): under a recognized family, is_command_for_distro
\* returns false for every candidate that contains a package manager
\* keyword outside the family's expected set; under an unrecognized family
\* it returns true for every candidate; a candidate with none of apt,
\* apt-get, dpkg, pacman, dnf, yum is accepted under every family.
C13_ForeignKeywordRejected ==
    Called("is_command_for_distro") =>
        LET cmd == Val(call).args[1]
            fam == Val(call).args[2]
            recognized == fam \in {"Ubuntu/Debian-based", "Arch-based",
                                   "Fedora/RHEL-based"}
        IN  /\ (recognized /\ HasKeyword(cmd, ForeignKeywords(fam)))
                  => result = Some(FALSE)
            /\ ~recognized => result = Some(TRUE)
            /\ ~HasKeyword(cmd, {"apt", "apt-get", "dpkg", "pacman", "dnf", "yum"})
                  => result = Some(TRUE)

\* C13 (amended): under a recognized family, is_command_for_distro returns
\* false for every candidate that contains a package manager keyword and
\* none of the keywords of the family (a candidate that also contains a
\* keyword of the family is accepted); under an unrecognized family it
\* returns true for every candidate; a candidate with none of apt, apt-get,
\* dpkg, pacman, dnf, yum is accepted under every family.
C13_OnlyForeignKeywordRejected ==
    Called("is_command_for_distro") =>
        LET cmd == Val(call).args[1]
            fam == Val(call).args[2]
            recognized == fam \in {"Ubuntu/Debian-based", "Arch-based",
                                   "Fedora/RHEL-based"}
        IN  /\ (/\ recognized
                /\ HasKeyword(cmd, ForeignKeywords(fam))
                /\ ~HasKeyword(cmd, FamilyKeywords(fam)))
                  => result = Some(FALSE)
            /\ (recognized /\ HasKeyword(cmd, FamilyKeywords(fam)))
                  => result = Some(TRUE)
            /\ ~recognized => result = Some(TRUE)
            /\ ~HasKeyword(cmd, {"apt", "apt-get", "dpkg", "pacman", "dnf", "yum"})
                  => result = Some(TRUE)

\* C13 witness: `pacman ls` was refused on a Debian-like system
C13_Witness ==
    /\ call = Some([fn |-> "is_command_for_distro",
                    args |-> <<"pacman ls", "Ubuntu/Debian-based">>])
    /\ result = Some(FALSE)

\* C14 (as claimed): is_valid_command returns false for every candidate that
\* contains a newline anywhere, leading and trailing positions included.
C14_NewlineRejected ==
    (/\ Called("is_valid_command")
     /\ \E i \in 1..Len(Val(call).args[1]) : CharAt(Val(call).args[1], i) = "\n")
        => result = Some(FALSE)

\* a newline of the text has a character that is not whitespace somewhere
\* before it and somewhere after it
InnerNewline(cmd) ==
    \E i, j, k \in 1..Len(cmd) :
        /\ i < j
        /\ j < k
        /\ CharAt(cmd, i) \notin {" ", "\t", "\n", "\r"}
        /\ CharAt(cmd, j) = "\n"
        /\ CharAt(cmd, k) \notin {" ", "\t", "\n", "\r"}

\* C14 (amended): is_valid_command returns false for every candidate that
\* still contains a newline once its leading and trailing whitespace is
\* removed, that is, a newline between two characters that are not
\* whitespace.
C14_InnerNewlineRejected ==
    (Called("is_valid_command") /\ InnerNewline(Val(call).args[1]))
        => result = Some(FALSE)

\* C14 witness: the two-line text "ls", newline, "-l" was rejected
C14_Witness ==
    /\ call = Some([fn |-> "is_valid_command", args |-> <<"ls\n-l">>])
    /\ result = Some(FALSE)

\* C16: every request starts from the same state whatever the earlier
\* requests of the session did (a final command with a sudo prefix, an
\* aborted clarification, an exhausted loop): its history is the single
\* entry "User: " and the instruction, its iteration count is 0 and it has
\* no final command; the family detected at startup is never modified.
C16_RequestsIsolated ==
    /\ [][(pc = "instruction" /\ pc' = "query")
          => /\ user_instruction' # None
             /\ conversation_history' = <<"User: " \o Val(user_instruction')>>
             /\ iteration' = 0
             /\ final_command' = None
             /\ queries' = 1]_vars
    /\ []((pc = "query" /\ queries = 1)
            => (/\ conversation_history = <<"User: " \o Val(user_instruction)>>
                /\ iteration = 0
                /\ final_command = None))
    /\ [][pc' = "query"
          => pc \in {"instruction", "clarify_mismatch", "clarify_question"}]_vars
    /\ [][family' = family /\ distro' = distro]_vars
    /\ [](family \in {"Ubuntu/Debian-based", "Arch-based", "unknown"})

\* C16 witness: a request has just started and its first query is out
C16_Witness ==
    /\ pc = "query"
    /\ queries = 1
    /\ user_instruction = Some("install htop")
    /\ conversation_history = <<"User: install htop">>
    /\ iteration = 0
    /\ final_command = None

\* C17: an empty clarification (nothing, or only whitespace) at the prompt
\* of either branch leaves iteration and the history as they were: no entry
\* is added for the response that was being clarified, the history keeps
\* its 1 + 2 * iteration entries, and no final command is set.
C17_EmptyClarificationIgnored ==
    [][(pc \in ClarifyStages /\ clarification' = Some(""))
          => /\ iteration' = iteration
             /\ conversation_history' = conversation_history
             /\ Len(conversation_history') = 1 + 2 * iteration'
             /\ final_command' = None]_vars

\* C17 witness: after one clarification turn, an empty clarification was
\* given to a mismatch and the history still has the three entries it had
C17_Witness ==
    /\ clarification = Some("")
    /\ pc = "query"
    /\ iteration = 1
    /\ Len(conversation_history) = 3
    /\ candidate = Some("sudo pacman -S htop")

\* the "response" texts of the JSON objects of the lines, in order, up to
\* and including the first object whose done flag is true; every other
\* line is skipped
RECURSIVE Folded(_)
Folded(lines) ==
    IF lines = <<>> THEN ""
    ELSE IF Head(lines).kind # "object" THEN Folded(Tail(lines))
    ELSE IF Head(lines).done THEN Head(lines).response
    ELSE Head(lines).response \o Folded(Tail(lines))

\* C18 (as claimed): without a transport failure query_ollama returns the
\* concatenation, in order, of the "response" text of every well-formed
\* fragment up to and including the first one whose done flag is true (as
\* its caller sees it, without the whitespace around it); the fragments
\* after that one contribute nothing, and a line that is not a well-formed
\* fragment is skipped without discarding the text accumulated before or
\* after it.  With a transport failure it returns None.
C18_StreamFolded ==
    Called("query_ollama") =>
        LET stream == Val(call).args[1]
        IN  IF stream.failed
            THEN result = Some(None)
            ELSE result = Some(Some(strip(Folded(stream.lines))))

\* C19: no process is executed unless a final command was accepted and the
\* user answered the prompt "Execute this command?" with y, yes or nothing,
\* in any letter case.  Any other answer skips the command: nothing is
\* executed, no remediation is offered and the instruction prompt follows.
C19_ExecutionConfirmed ==
    /\ [](executed # <<>>
            => /\ outcome \notin {"none", "running", "no_response", "unusable",
                                  "aborted", "exhausted", "skipped"}
               /\ final_command # None
               /\ confirm \in {Some("y"), Some("yes"), Some("")})
    /\ [][executed' # executed
          => (executed' = <<>> \/ pc \in ExecutionStages)]_vars
    /\ [][pc = "confirm"
          => IF confirm' \in {Some("y"), Some("yes"), Some("")}
             THEN /\ pc' = "execute"
                  /\ executed' = <<Val(final_command)>>
             ELSE /\ pc' = "instruction"
                  /\ outcome' = "skipped"
                  /\ executed' = <<>>
                  /\ create_group' = None
                  /\ sudo_confirm' = None]_vars
    /\ [](outcome = "skipped"
            => (/\ pc \in {"instruction", "exited"}
                /\ executed = <<>>
                /\ retcode = None
                /\ create_group = None
                /\ sudo_confirm = None))
    /\ [](confirm \notin {Some("Y"), Some("YES"), Some("Yes")})

\* C19 witness: `ls /tmp` is running after the answer Y, read as y
C19_Witness ==
    /\ pc = "execute"
    /\ confirm = Some("y")
    /\ final_command = Some("ls /tmp")
    /\ executed = <<"ls /tmp">>

\* entry i of the history h carries the label of its position: a User
\* entry at the odd positions, an Assistant entry at the even ones
Alternates(h) ==
    \A i \in 1..Len(h) :
        IF i % 2 = 1
        THEN startswith(h[i], "User: ")
        ELSE startswith(h[i], "Assistant: ")
                \/ startswith(h[i], "Assistant (mismatch): ")

\* C20: whenever an LLM query is about to be made or is out, the history
\* has exactly 1 + 2 * iteration entries, the first is "User: " and the
\* instruction, the entries alternate between User and Assistant labels and
\* the last one is a User entry; once a command is accepted, and until the
\* next instruction is read, the history has exactly 2 + 2 * iteration
\* entries and ends with an "Assistant: " entry.
\* Within a request entries are only appended, never removed or rewritten.
C20_HistoryShape ==
    /\ [](pc \in ConversationStages
            => /\ Len(conversation_history) = 1 + 2 * iteration
               /\ conversation_history[1] = "User: " \o Val(user_instruction)
               /\ Alternates(conversation_history)
               /\ startswith(conversation_history[Len(conversation_history)],
                             "User: "))
    /\ []((pc \in ExecutionStages \/ (pc = "instruction" /\ final_command # None))
            => /\ Len(conversation_history) = 2 + 2 * iteration
               /\ conversation_history[1] = "User: " \o Val(user_instruction)
               /\ Alternates(conversation_history)
               /\ startswith(conversation_history[Len(conversation_history)],
                             "Assistant: "))
    /\ [][pc # "instruction"
          => /\ Len(conversation_history') >= Len(conversation_history)
             /\ SubSeq(conversation_history', 1, Len(conversation_history))
                    = conversation_history]_vars

\* C20 witness: a command was accepted after one clarification turn, and
\* the history has four entries, the last one of the assistant
C20_Witness ==
    /\ pc = "confirm"
    /\ iteration = 1
    /\ Len(conversation_history) = 4
    /\ startswith(conversation_history[2], "Assistant (mismatch): ")
    /\ startswith(conversation_history[4], "Assistant: ")

====
